---- MODULE Spec2Model ----
(***************************************************************************)
(* oxc_transformer: the Transformer orchestrator (crates/oxc_transformer/  *)
(* src/lib.rs).  One Transformer owns the shared context and the three     *)
(* passes x0_typescript, x1_react, x2_decorators; build() walks the        *)
(* program once, calling the passes' hooks at every statement and          *)
(* expression before descending, then takes the collected errors.          *)
(*                                                                         *)
(* The tree is a map from node ids to nodes.  Node 0 is the Program; the   *)
(* recursion of the visitor is kept as an explicit stack of frames, one    *)
(* per visit_statement / visit_expression call that is active or pending   *)
(* in the enclosing walk's iteration over its children.                    *)
(***************************************************************************)
EXTENDS Integers, Sequences, FiniteSets, TLC

(* ------------------------------ bounds --------------------------------- *)
\* nodes a run's hooks may synthesise from the allocator
MaxFresh == 1
\* diagnostics the context's log may hold
MaxErrors == 2

(* ------------------------------ the tree ------------------------------- *)
ProgramNode == 0
InitNodes == {1, 2, 3}
FreshNodes == {Cardinality(InitNodes) + i : i \in 1..MaxFresh}
Nodes == {ProgramNode} \cup InitNodes \cup FreshNodes

Features == {"type", "jsx", "decorator"}

Node(k, syn, ks) == [kind |-> k, syntax |-> syn, kids |-> ks]
NoNode == Node("none", {}, <<>>)

\* program { s1 { e3 }  s2 } : two statements with disjoint subtrees
ProgramWide ==
    [n \in Nodes |->
        CASE n = 0 -> Node("program", {}, <<1, 2>>)
          [] n = 1 -> Node("stmt", {"type"}, <<3>>)
          [] n = 2 -> Node("stmt", {"decorator"}, <<>>)
          [] n = 3 -> Node("expr", {"jsx"}, <<>>)
          [] OTHER -> NoNode]

\* program { s1 { s2  e3 } } : a statement with a statement and an expression below
ProgramDeep ==
    [n \in Nodes |->
        CASE n = 0 -> Node("program", {}, <<1>>)
          [] n = 1 -> Node("stmt", {"type", "decorator"}, <<2, 3>>)
          [] n = 2 -> Node("stmt", {}, <<>>)
          [] n = 3 -> Node("expr", {}, <<>>)
          [] OTHER -> NoNode]

\* program { s1 { e2 { s3 } } } : a statement inside an expression
ProgramChain ==
    [n \in Nodes |->
        CASE n = 0 -> Node("program", {}, <<1>>)
          [] n = 1 -> Node("stmt", {}, <<2>>)
          [] n = 2 -> Node("expr", {"jsx"}, <<3>>)
          [] n = 3 -> Node("stmt", {"type"}, <<>>)
          [] OTHER -> NoNode]

\* the empty program
ProgramEmpty ==
    [n \in Nodes |-> IF n = 0 THEN Node("program", {}, <<>>) ELSE NoNode]

Programs == {ProgramWide, ProgramDeep, ProgramChain, ProgramEmpty}

\* the caller's compilation: the program it transforms after program t
NextProgram(t) ==
    CASE t = ProgramWide -> ProgramDeep
      [] t = ProgramDeep -> ProgramChain
      [] t = ProgramChain -> ProgramEmpty
      [] OTHER -> ProgramWide

RECURSIVE PreOrder(_, _)
\* the nodes below the sequence ns of siblings in tree t, depth-first, parents first
PreOrder(t, ns) ==
    IF ns = <<>> THEN <<>>
    ELSE <<Head(ns)>> \o PreOrder(t, t[Head(ns)].kids) \o PreOrder(t, Tail(ns))

Range(s) == {s[i] : i \in 1..Len(s)}
Attached(t) == Range(PreOrder(t, t[ProgramNode].kids))
Descendants(t, n) == Range(PreOrder(t, t[n].kids))

(* --------------------------- the passes -------------------------------- *)
\* struct Transformer: the passes in declaration order
Passes == <<"x0_typescript", "x1_react", "x2_decorators">>
PassNames == Range(Passes)
PassIndex(p) == CHOOSE i \in 1..Len(Passes) : Passes[i] = p

\* the syntax each pass lowers
Lowers(p) ==
    CASE p = "x0_typescript" -> "type"
      [] p = "x1_react" -> "jsx"
      [] p = "x2_decorators" -> "decorator"

\* syntax a pass's own rewrite may introduce on the node
Introduces(p) == IF p = "x2_decorators" THEN {"type"} ELSE {}

\* the rewrites the hook of pass p may make on node n of tree t: leave it, lower
\* the pass's own syntax, introduce syntax, drop a child, replace a child by a
\* synthesised node of its kind, or add a synthesised expression child
HasFresh(t) == \E f \in FreshNodes : t[f].kind = "none"
NextFresh(t) == CHOOSE f \in FreshNodes :
    /\ t[f].kind = "none"
    /\ \A g \in FreshNodes : t[g].kind = "none" => f <= g

Rw(op, i, k) == [op |-> op, i |-> i, kind |-> k]

Rewrites(t, n, p) ==
    {Rw("keep", 0, "none")}
    \cup {Rw("lower", 0, "none") : x \in {Lowers(p)} \cap t[n].syntax}
    \cup {Rw("intro", 0, "none") : x \in Introduces(p) \ t[n].syntax}
    \cup {Rw("drop", i, "none") : i \in 1..Len(t[n].kids)}
    \cup {Rw("replace", i, "none") : i \in {j \in 1..Len(t[n].kids) : HasFresh(t)}}
    \cup {Rw("add", 0, k) : k \in {j \in {"expr"} : HasFresh(t)}}

RemoveAt(s, i) == SubSeq(s, 1, i - 1) \o SubSeq(s, i + 1, Len(s))
ReplaceAt(s, i, x) == [s EXCEPT ![i] = x]

FreshSyntax(k) == IF k = "stmt" THEN {"type"} ELSE {"jsx"}

ApplyRewrite(t, n, p, rw) ==
    CASE rw.op = "keep" -> t
      [] rw.op = "lower" ->
            [t EXCEPT ![n].syntax = @ \ {Lowers(p)}]
      [] rw.op = "intro" ->
            [t EXCEPT ![n].syntax = @ \cup Introduces(p)]
      [] rw.op = "drop" ->
            [t EXCEPT ![n].kids = RemoveAt(@, rw.i)]
      [] rw.op = "replace" ->
            LET f == NextFresh(t)
                k == t[t[n].kids[rw.i]].kind
            IN  [t EXCEPT ![n].kids = ReplaceAt(@, rw.i, f),
                          ![f] = Node(k, FreshSyntax(k), <<>>)]
      [] rw.op = "add" ->
            LET f == NextFresh(t)
            IN  [t EXCEPT ![n].kids = Append(@, f),
                          ![f] = Node(rw.kind, FreshSyntax(rw.kind), <<>>)]

(* ------------------------ the shared context --------------------------- *)
Diagnostic(p, n) == [msg |-> p, span |-> n]

RECURSIVE Repeat(_, _)
Repeat(x, k) == IF k = 0 THEN <<>> ELSE <<x>> \o Repeat(x, k - 1)

\* TransformCtx::error, called k times by one hook
RecordErrors(log, d, k) == log \o Repeat(d, k)

\* TransformCtx::take_errors: the value returned; the log is left empty
TakeErrors(log) == log
EmptyLog == <<>>

(* --------------------------- the orchestrator -------------------------- *)
VARIABLES
    self,         \* the Transformer value: "live" after new, "moved" once build took it
    options,      \* TransformOptions: which passes are enabled
    tree,         \* the caller's Program, lent to build
    errors,       \* ctx's diagnostic log
    stack,        \* active and pending visit_* calls, innermost first
    pc,           \* "idle" | "walking" | "done"
    result,       \* what build returned
    tree0,        \* history: the Program as passed to build
    calls,        \* history: hook invocations <<node, pass>> in order
    entered,      \* history: nodes in the order visit_* was entered on them
    recLog,       \* history: record_error calls in order
    lastHook,     \* history: the latest hook invocation and the node as it left it
    rewritten,    \* history: the Program with the hooks' rewrites of this run applied
    drains,       \* history: take_errors calls of the current run
    built         \* history: build calls started on the current Transformer

vars == <<self, options, tree, errors, stack, pc, result, tree0, calls, entered,
          recLog, lastHook, rewritten,
          drains, built>>

NoHook == [node |-> ProgramNode, pass |-> "none", after |-> NoNode]
NoResult == [tag |-> "none", errors |-> <<>>]
Ok == [tag |-> "Ok", errors |-> <<>>]
Err(es) == [tag |-> "Err", errors |-> es]

\* variants of build's return: only the first error; the test inverted; the
\* errors in reverse
BuildResultFirstOnly(es) == IF es = <<>> THEN Ok ELSE Err(<<Head(es)>>)
BuildResultInverted(es) == IF es # <<>> THEN Ok ELSE Err(es)
BuildResultReversed(es) ==
    IF es = <<>> THEN Ok ELSE Err([i \in 1..Len(es) |-> es[Len(es) + 1 - i]])

\* build, lines 88-92
BuildResult(es) == IF es = <<>> THEN Ok ELSE Err(es)

\* variant: build(&mut self, ..) borrows the receiver
ConsumeBorrowed(t) == t

\* build(mut self, ..): the receiver is taken by value
Consume(t) == "moved"

\* variants of visit_statement: a hook called twice; the decorators hook first;
\* one walk per pass; the walk before the hooks
StatementStepsTwice == <<"x0_typescript", "x0_typescript", "x2_decorators", "walk">>
StatementStepsSwapped == <<"x2_decorators", "x0_typescript", "walk">>
StatementStepsWalkPerPass == <<"x0_typescript", "walk", "x2_decorators", "walk">>
StatementStepsWalkFirst == <<"walk", "x0_typescript", "x2_decorators">>
\* more variants: the walk between the hooks; type erasure run again after the
\* decorators hook
StatementStepsWalkBetween == <<"x0_typescript", "walk", "x2_decorators">>
StatementStepsReErase == <<"x0_typescript", "x2_decorators", "x0_typescript", "walk">>

\* visit_statement: the calls it makes, in order
StatementSteps == <<"x0_typescript", "x2_decorators", "walk">>

\* variants of visit_expression: the walk is missing; the hook called twice
ExpressionStepsNoWalk == <<"x1_react">>
ExpressionStepsTwice == <<"x1_react", "x1_react", "walk">>

\* visit_expression: the calls it makes, in order
ExpressionSteps == <<"x1_react", "walk">>

Steps(n) == IF tree[n].kind = "stmt" THEN StatementSteps ELSE ExpressionSteps

Frame(n, i) == [node |-> n, at |-> i]
\* one pending visit_* call per child, first child innermost
Frames(ns) == [i \in 1..Len(ns) |-> Frame(ns[i], 1)]
\* the frame after its current call returned: its next call, or gone
Advance(f) == IF f.at < Len(Steps(f.node)) THEN <<Frame(f.node, f.at + 1)>> ELSE <<>>

\* variant: a failing build hands the program back as it was given
ProgramRolledBack(r) == IF r.tag = "Err" THEN tree0 ELSE tree

\* build, lines 87-92: the program is not written to after the walk
ProgramAfterBuild(r) == tree

\* variants: the errors are taken before the walk has returned
WalkReturnedEarly == TRUE
\* variant: the walk is cut short once an error is in the log
WalkReturnedOrFailed == stack = <<>> \/ errors # <<>>

\* self.visit_program(program) has returned
WalkReturned == stack = <<>>

Init ==
    /\ self = "live"
    /\ options \in [PassNames -> BOOLEAN]
    /\ tree \in Programs
    /\ errors = EmptyLog
    /\ stack = <<>>
    /\ pc = "idle"
    /\ result = NoResult
    /\ tree0 = tree
    /\ calls = <<>>
    /\ entered = <<>>
    /\ recLog = <<>>
    /\ lastHook = NoHook
    /\ rewritten = tree
    /\ drains = 0
    /\ built = 0

\* Transformer::new, for the next program of the caller's compilation, under
\* the same options
New ==
    /\ pc # "walking"
    /\ self' = "live"
    /\ options' = options
    /\ tree' = NextProgram(tree0)
    /\ errors' = EmptyLog
    /\ stack' = <<>>
    /\ pc' = "idle"
    /\ result' = NoResult
    /\ tree0' = tree'
    /\ calls' = <<>>
    /\ entered' = <<>>
    /\ recLog' = <<>>
    /\ lastHook' = NoHook
    /\ rewritten' = tree'
    /\ drains' = 0
    /\ built' = 0

\* build: self.visit_program(program) is called; the walk of the Program
\* visits each statement of its body
BuildStart ==
    /\ self = "live"
    /\ pc # "walking"
    /\ self' = Consume(self)
    /\ pc' = "walking"
    /\ stack' = Frames(tree[ProgramNode].kids)
    /\ tree0' = tree
    /\ built' = built + 1
    /\ rewritten' = tree
    /\ UNCHANGED <<options, tree, errors, result, calls, entered, recLog, lastHook, drains>>

\* a pass's hook on the node of the innermost visit_* call
HookStep(p, kind) ==
    /\ pc = "walking"
    /\ stack # <<>>
    /\ LET f == Head(stack)
           n == f.node
       IN  /\ tree[n].kind = kind
           /\ Steps(n)[f.at] = p
           /\ \E rw \in Rewrites(tree, n, p), k \in 0..(MaxErrors - Len(errors)) :
                /\ ~options[p] => (rw.op = "keep" /\ k = 0)
                /\ tree' = ApplyRewrite(tree, n, p, rw)
                /\ errors' = RecordErrors(errors, Diagnostic(p, n), k)
                /\ recLog' = recLog \o Repeat([node |-> n, pass |-> p, diag |-> Diagnostic(p, n)], k)
                /\ rewritten' = ApplyRewrite(rewritten, n, p, rw)
                /\ lastHook' = [node |-> n, pass |-> p, after |-> tree'[n]]
           /\ calls' = Append(calls, <<n, p>>)
           /\ entered' = IF f.at = 1 THEN Append(entered, n) ELSE entered
           /\ stack' = Advance(f) \o Tail(stack)
    /\ UNCHANGED <<self, options, pc, result, tree0, drains, built>>

\* walk_mut::walk_*_mut on the node of the innermost visit_* call: one visit_*
\* call per current child
WalkStep(kind) ==
    /\ pc = "walking"
    /\ stack # <<>>
    /\ LET f == Head(stack)
           n == f.node
       IN  /\ tree[n].kind = kind
           /\ Steps(n)[f.at] = "walk"
           /\ entered' = IF f.at = 1 THEN Append(entered, n) ELSE entered
           /\ stack' = Frames(tree[n].kids) \o Advance(f) \o Tail(stack)
    /\ UNCHANGED <<self, options, tree, errors, pc, result, tree0, calls, recLog,
                   lastHook, rewritten, drains, built>>

\* visit_statement, line 98
TypeScriptTransformStatement == HookStep("x0_typescript", "stmt")
\* visit_statement, line 99
DecoratorsTransformStatement == HookStep("x2_decorators", "stmt")
\* visit_statement, line 100
WalkStatementMut == WalkStep("stmt")
\* visit_expression, line 104
ReactTransformExpression == HookStep("x1_react", "expr")
\* visit_expression, line 105
WalkExpressionMut == WalkStep("expr")

\* build, lines 87-92: take the errors and return
BuildReturn ==
    /\ pc = "walking"
    /\ WalkReturned
    /\ result' = BuildResult(TakeErrors(errors))
    /\ errors' = EmptyLog
    /\ drains' = drains + 1
    /\ tree' = ProgramAfterBuild(result')
    /\ pc' = "done"
    /\ UNCHANGED <<self, options, stack, tree0, calls, entered, recLog, lastHook,
                   rewritten, built>>

Walk ==
    \/ TypeScriptTransformStatement
    \/ DecoratorsTransformStatement
    \/ WalkStatementMut
    \/ ReactTransformExpression
    \/ WalkExpressionMut

Next ==
    \/ New
    \/ BuildStart
    \/ TypeScriptTransformStatement
    \/ DecoratorsTransformStatement
    \/ WalkStatementMut
    \/ ReactTransformExpression
    \/ WalkExpressionMut
    \/ BuildReturn

Spec == Init /\ [][Next]_vars

\* build is synchronous: once called it runs until it returns
FairSpec == Spec /\ WF_vars(Walk \/ BuildReturn)

(* ------------------------------ claims --------------------------------- *)
Count(s, x) == Cardinality({i \in 1..Len(s) : s[i] = x})
Pos(s, x) == CHOOSE i \in 1..Len(s) : s[i] = x
Diags(log) == [i \in 1..Len(log) |-> log[i].diag]
IsPrefix(s, t) == Len(s) <= Len(t) /\ SubSeq(t, 1, Len(s)) = s
AllDisabled == \A p \in PassNames : ~options[p]
Disjoint(t, a, b) == a # b /\ a \notin Descendants(t, b) /\ b \notin Descendants(t, a)
\* nodes that were in a tree of the run and are no longer below the Program
Detached ==
    LET att == Attached(tree)
    IN  {n \in Nodes \ att : tree[n].kind # "none" /\ n # ProgramNode}
\* every node below the Program has been entered
WalkComplete == \A n \in Attached(tree) : n \in Range(entered)

\* C1: build returns Ok exactly when no diagnostic was recorded during the
\* run, and otherwise Err carrying every recorded diagnostic, each one as
\* recorded, none dropped, truncated or merged.
C1_BuildResult ==
    pc = "done" =>
        /\ result.tag \in {"Ok", "Err"}
        /\ result.tag = "Ok" <=> recLog = <<>>
        /\ result.errors = Diags(recLog)

C1_Witness ==
    /\ pc = "done"
    /\ result.tag = "Err"
    /\ Len(result.errors) = 2
    /\ result.errors[1] = result.errors[2]

\* C2 as stated: at the end of a run every node below the Program has had the
\* hook of every one of the three passes exactly once.
C2_Original ==
    pc = "done" =>
        \A n \in Attached(tree) : \A p \in PassNames : Count(calls, <<n, p>>) = 1

\* C2 amended: no hook is ever invoked twice on a node; at the end of a run
\* every statement has had the type-erasure hook and the decorator hook exactly
\* once each and no JSX hook, and every expression has had the JSX hook
\* exactly once and no other hook.
C2_HookCounts ==
    /\ \A i, j \in 1..Len(calls) : i < j => calls[i] # calls[j]
    /\ pc = "done" =>
        \A n \in Attached(tree) :
            /\ tree[n].kind = "stmt" =>
                /\ Count(calls, <<n, "x0_typescript">>) = 1
                /\ Count(calls, <<n, "x2_decorators">>) = 1
                /\ Count(calls, <<n, "x1_react">>) = 0
            /\ tree[n].kind = "expr" =>
                /\ Count(calls, <<n, "x1_react">>) = 1
                /\ Count(calls, <<n, "x0_typescript">>) = 0
                /\ Count(calls, <<n, "x2_decorators">>) = 0

C2_Witness ==
    /\ pc = "done"
    /\ \E n, m \in Attached(tree) : tree[n].kind = "stmt" /\ tree[m].kind = "expr"
    /\ Attached(tree) \cap FreshNodes # {}

\* C3: the hook calls at any one node happen in the passes' declared order;
\* the decorator hook at a statement runs only after the type-erasure hook at
\* that statement.
C3_DeclaredOrder ==
    /\ \A i, j \in 1..Len(calls) :
            (i < j /\ calls[i][1] = calls[j][1])
                => PassIndex(calls[i][2]) < PassIndex(calls[j][2])
    /\ \A j \in 1..Len(calls) :
            calls[j][2] = "x2_decorators"
                => \E i \in 1..(j - 1) : calls[i] = <<calls[j][1], "x0_typescript">>

C3_Witness ==
    \E i, j \in 1..Len(calls) :
        /\ i < j
        /\ calls[i][1] = calls[j][1]
        /\ calls[i][2] = "x0_typescript"
        /\ calls[j][2] = "x2_decorators"
        /\ tree[calls[i][1]].syntax # tree0[calls[i][1]].syntax

\* C4: a recorded diagnostic never stops the walk: at the end of a run every
\* node below the Program has been entered and has had its hooks, and two
\* diagnostics recorded at nodes in disjoint subtrees are both in the result,
\* in the order in which their nodes were visited.
C4_NoEarlyTermination ==
    pc = "done" =>
        /\ WalkComplete
        /\ \A n \in Attached(tree) :
            IF tree[n].kind = "stmt"
            THEN /\ Count(calls, <<n, "x0_typescript">>) >= 1
                 /\ Count(calls, <<n, "x2_decorators">>) >= 1
            ELSE Count(calls, <<n, "x1_react">>) >= 1
        /\ \A i, j \in 1..Len(recLog) :
            (i < j /\ Disjoint(tree, recLog[i].node, recLog[j].node)) =>
                /\ Len(result.errors) >= j
                /\ result.errors[i] = recLog[i].diag
                /\ result.errors[j] = recLog[j].diag
                /\ Pos(entered, recLog[i].node) < Pos(entered, recLog[j].node)

C4_Witness ==
    /\ pc = "done"
    /\ Len(result.errors) = 2
    /\ Disjoint(tree, result.errors[1].span, result.errors[2].span)
    /\ {result.errors[1].span, result.errors[2].span} \subseteq Attached(tree)
    /\ \E k \in 1..Len(entered) : k > Pos(entered, result.errors[2].span)

\* C5: the log is exactly the record_error calls made so far, in the order
\* they were made, and build returns it whole: the diagnostics come node by
\* node in depth-first pre-order and, within a node, in pass order; while the
\* walk runs the log only grows at its end.
C5_LogOrder ==
    /\ [](pc = "walking" => errors = Diags(recLog))
    /\ [](pc = "done" =>
            /\ result.errors = Diags(recLog)
            /\ LET order == PreOrder(tree, tree[ProgramNode].kids)
               IN  \A i, j \in 1..Len(result.errors) :
                     i < j =>
                        LET a == result.errors[i]
                            b == result.errors[j]
                        IN  \/ Pos(order, a.span) < Pos(order, b.span)
                            \/ /\ a.span = b.span
                               /\ PassIndex(a.msg) <= PassIndex(b.msg))
    /\ [][(pc = "walking" /\ pc' = "walking") => IsPrefix(errors, errors')]_vars

C5_Witness ==
    /\ pc = "done"
    /\ Len(result.errors) = 2
    /\ result.errors[1].span # result.errors[2].span
    /\ result.errors[2].span \in Descendants(tree, result.errors[1].span)

\* C6: with every pass disabled, build leaves the tree equal to the tree it
\* was given and returns Ok.
C6_IdentityWhenDisabled ==
    (pc = "done" /\ AllDisabled) => (tree = tree0 /\ result = Ok /\ recLog = <<>>)

C6_Witness ==
    /\ pc = "done"
    /\ AllDisabled
    /\ Len(calls) >= 5

\* C7: no node is entered twice by the walk, and at the end of a run every
\* node below the Program has been entered exactly once, whatever the number
\* of hooks it received.
C7_OneTraversal ==
    /\ \A i, j \in 1..Len(entered) : i < j => entered[i] # entered[j]
    /\ pc = "done" =>
        /\ \A n \in Attached(tree) : Count(entered, n) = 1
        /\ Len(entered) = Cardinality(Attached(tree))

C7_Witness ==
    /\ pc = "done"
    /\ Len(entered) = 4
    /\ Len(calls) > Len(entered)

\* C8: a Transformer starts at most one run: build takes it, and from then on
\* no build can start until a new Transformer is constructed.
C8_SingleUse ==
    /\ built <= 1
    /\ built = 1 => self = "moved"
    /\ pc = "walking" => self = "moved"
    /\ self = "moved" => ~ENABLED BuildStart

C8_Witness ==
    /\ pc = "done"
    /\ self = "moved"
    /\ built = 1
    /\ ~ENABLED BuildStart
    /\ ENABLED New

\* C9: a run that has started reaches build's return, with every node below
\* the Program entered.
C9_WalkCompletes == (pc = "walking") ~> (pc = "done" /\ WalkComplete)

C9_Witness ==
    /\ pc = "done"
    /\ WalkComplete
    /\ result.tag = "Err"
    /\ \E f \in FreshNodes : f \in Attached(tree) /\ f \in Range(entered)

\* C10: a hook is invoked on a node only after every hook of each of its
\* ancestors has returned; a node a hook removed or replaced is never
\* entered; at the end of a run the nodes entered are, in order, the nodes of
\* the tree as the hooks left it.
C10_DescentFollowsRewrite ==
    LET order == PreOrder(tree, tree[ProgramNode].kids)
        att == Range(order)
        ent == Range(entered)
    IN  /\ \A a \in {n \in att : tree[n].kids # <<>>} :
            LET below == Descendants(tree, a)
            IN  \A j \in 1..Len(calls) :
                    calls[j][1] \in below =>
                        IF tree[a].kind = "stmt"
                        THEN /\ \E i \in 1..(j - 1) : calls[i] = <<a, "x0_typescript">>
                             /\ \E i \in 1..(j - 1) : calls[i] = <<a, "x2_decorators">>
                        ELSE \E i \in 1..(j - 1) : calls[i] = <<a, "x1_react">>
        /\ \A n \in ent : n \in att
        /\ pc = "done" => entered = order

C10_Witness ==
    /\ pc = "done"
    /\ \E n \in Detached : tree0[n].kind # "none"
    /\ \E f \in FreshNodes : f \in Attached(tree) /\ f \in Range(entered)

\* C11: while hooks are still to run at the node being visited, no hook has
\* been invoked on any node below it; and when the decorator hook is about to
\* run at a statement, the latest hook invocation was the type-erasure hook at
\* that statement and the statement is as that hook left it.
C11_HookObserves ==
    (pc = "walking" /\ stack # <<>>) =>
        LET n == Head(stack).node
            below == Descendants(tree, n)
            called == Range(calls)
            pending == IF tree[n].kind = "stmt"
                       THEN <<n, "x2_decorators">> \notin called
                       ELSE <<n, "x1_react">> \notin called
        IN  /\ pending => \A c \in called : c[1] \notin below
            /\ (pending /\ <<n, "x0_typescript">> \in called) =>
                    /\ lastHook.node = n
                    /\ lastHook.pass = "x0_typescript"
                    /\ lastHook.after = tree[n]

C11_Witness ==
    /\ pc = "walking"
    /\ stack # <<>>
    /\ LET n == Head(stack).node
       IN  /\ <<n, "x0_typescript">> \in Range(calls)
           /\ <<n, "x2_decorators">> \notin Range(calls)
           /\ tree[n] # tree0[n]
           /\ Descendants(tree, n) # {}
           /\ Len(calls) >= 2

\* C12: every hook call at an expression is a JSX call and no hook call at a
\* statement is one; an expression never has more than one hook call, its
\* children are entered only after that call, and at the end of a run every
\* expression below the Program has had exactly one hook call and its
\* children have been entered.
C12_ExpressionHooks ==
    LET ent == Range(entered)
        hooked == {calls[i][1] : i \in 1..Len(calls)}
        exprs == {n \in Nodes : tree[n].kind = "expr"}
    IN  /\ \A i \in 1..Len(calls) :
                (calls[i][1] \in exprs) <=> (calls[i][2] = "x1_react")
        /\ \A i, j \in 1..Len(calls) :
                (i < j /\ calls[i][1] \in exprs) => calls[i][1] # calls[j][1]
        /\ \A n \in exprs \ hooked : Range(tree[n].kids) \cap ent = {}
        /\ pc = "done" =>
                \A n \in exprs \cap Attached(tree) :
                    /\ n \in hooked
                    /\ Range(tree[n].kids) \subseteq ent

C12_Witness ==
    /\ pc = "done"
    /\ \E n \in Attached(tree) :
            /\ tree[n].kind = "expr"
            /\ \E k \in 1..Len(tree[n].kids) : tree[tree[n].kids[k]].kind = "stmt"
            /\ Range(tree[n].kids) \subseteq Range(entered)

\* C13: the log is taken at most once per run, never while the walk is under
\* way; once build has returned every node below the Program has been
\* entered, no visit is pending, no hook can run any more and the context's
\* log is empty.
C13_DrainOnce ==
    /\ drains <= 1
    /\ pc = "walking" => drains = 0
    /\ pc = "done" =>
        /\ drains = 1
        /\ errors = EmptyLog
        /\ stack = <<>>
        /\ WalkComplete
        /\ ~ENABLED Walk
        /\ ~ENABLED BuildReturn

C13_Witness ==
    /\ pc = "done"
    /\ drains = 1
    /\ Len(recLog) = 2
    /\ errors = EmptyLog
    /\ Len(entered) >= 3

\* C14: at a statement the type-erasure hook is never invoked after the
\* decorator hook, and once the decorator hook has returned the statement's
\* own syntax stays as that hook left it for the rest of the run, so type
\* syntax it reintroduced is still there when build returns.
C14_NoReprocessing ==
    /\ [](\A i, j \in 1..Len(calls) :
            (i < j /\ calls[i][1] = calls[j][1] /\ calls[i][2] = "x2_decorators")
                => calls[j][2] # "x0_typescript")
    /\ [][pc = "walking" =>
            \A n \in Nodes :
                <<n, "x2_decorators">> \in Range(calls)
                    => tree'[n].syntax = tree[n].syntax]_vars

C14_Witness ==
    /\ pc = "done"
    /\ options["x0_typescript"]
    /\ \E n \in Attached(tree) :
            /\ tree[n].kind = "stmt"
            /\ <<n, "x0_typescript">> \in Range(calls)
            /\ "type" \notin tree0[n].syntax
            /\ "type" \in tree[n].syntax
            /\ tree0[n].kind = "stmt"

\* C15: when build returns Err the program is the program it was given with
\* every rewrite of every hook of the run applied, the same tree those
\* rewrites produce when nothing is recorded.
C15_NoRollback ==
    (pc = "done" /\ result.tag = "Err") => tree = rewritten

C15_Witness ==
    /\ pc = "done"
    /\ result.tag = "Err"
    /\ tree # tree0
    /\ tree = rewritten

====
